---- MODULE Spec2Model ----
(***************************************************************************)
(* A model of the OmniGen adapter node (src/main.py): the stateful         *)
(* OmniGenInference object, its pipeline cache, its temporary files, the   *)
(* model-weight check of _ensure_model_exists and the prompt/image tag     *)
(* substitution of _process_prompt_and_images.                             *)
(*                                                                         *)
(* Three specifications share the variables:                               *)
(*   Spec        generation() calls on one constructed adapter object,     *)
(*               one action per step of the method;                        *)
(*   SpecEnsure  one call of _ensure_model_exists(model_precision) from    *)
(*               every combination of argument and files on disk;          *)
(*   SpecPrompt  one call of _process_prompt_and_images(prompt, images)    *)
(*               from every bounded prompt, image list and save outcome.   *)
(*                                                                         *)
(* Strings are sequences of tokens.  The tokens are chosen so that a       *)
(* substring test or a replace on the characters is the same test or       *)
(* replace on the tokens: "image", "_" and the digits are tokens of their  *)
(* own, so the tag "<img><|image_1|></img>" is the five tokens             *)
(* "<img><|", "image", "_", "1", "|></img>" and contains "image_1".        *)
(***************************************************************************)
EXTENDS Integers, Sequences, FiniteSets, TLC

VARIABLES
    \* ---- the machine (fixed after Init)
    cuda,              \* torch.cuda.is_available()
    mps,               \* torch.backends.mps.is_available()
    totalMemKiB,       \* get_device_properties(0).total_memory, in KiB
    \* ---- the disk
    fp16File,          \* Paths.MODEL_FILE_FP16 exists
    fp8File,           \* Paths.MODEL_FILE_FP8 exists
    tmpRoot,           \* Paths.TMP_DIR exists
    tmpDirs,           \* the uuid directories under TMP_DIR that exist
    tmpFiles,          \* the NamedTemporaryFile files in TMP_DIR that exist
    \* ---- the adapter object
    device,            \* self.device
    modelInstance,     \* self._model_instance (0 is None, else a pipeline id)
    currentPrecision,  \* self._current_precision ("None" is None)
    tempDirAttr,       \* self._temp_dir (0: the attribute is not set)
    \* ---- the running call
    pc,                \* the position in the running method
    calls,             \* generation() calls started so far
    requested,         \* the model_precision argument
    precision,         \* model_precision after line 277 ("None" before)
    finalPrompt,       \* final_prompt
    images,            \* [image_1, image_2, image_3]
    saved,             \* the images save_input_img returned a path for
    pipe,              \* the local pipe (0: not bound)
    inputImages,       \* input_images
    pipeCalls,         \* invocations of pipe(...) in this call
    output,            \* what pipe(...) returned ("none": nothing yet)
    outcome,           \* "none" | "return" | "raise": how the call ended
    retVal,            \* the value returned
    error,             \* the step that raised ("none": no step did)
    log,               \* the external operations of this call, in order
    \* ---- history
    builtPrec,         \* builtPrec[id]: the precision pipeline id was built for
    prevAcq,           \* the last acquisition of an earlier call (see C1)
    cacheAtStart,      \* <<_model_instance, _current_precision>> at call start
    cacheAtGet,        \* the same pair when _get_pipeline was entered
    filesAtStart,      \* <<fp16File, fp8File>> at call start
    promptIn,          \* the prompt _process_prompt_and_images was given
    createdDirs,       \* uuid directories this call created
    createdFiles       \* temp files this call created

machineVars == <<cuda, mps, totalMemKiB>>
diskVars    == <<fp16File, fp8File, tmpRoot, tmpDirs, tmpFiles>>
objVars     == <<device, modelInstance, currentPrecision, tempDirAttr>>
callVars    == <<pc, calls, requested, precision, finalPrompt, images, saved, pipe,
                 inputImages, pipeCalls, output, outcome, retVal, error, log>>
histVars    == <<builtPrec, prevAcq, cacheAtStart, cacheAtGet, filesAtStart,
                 promptIn, createdDirs, createdFiles>>
vars        == <<machineVars, diskVars, objVars, callVars, histVars>>

(***************************************************************************)
(* Bounds.                                                                 *)
(***************************************************************************)
MaxCalls == 2          \* generation() calls on the object
MaxWords == 2          \* words of an input prompt (SpecPrompt)

(***************************************************************************)
(* Strings as token sequences.                                             *)
(***************************************************************************)
OPEN  == "<img><|"
CLOSE == "|></img>"
NumImages == 3

Digit(i) == IF i = 1 THEN "1" ELSE IF i = 2 THEN "2" ELSE "3"

\* f"<img><|image_{i}|></img>"
ImgTag(i) == <<OPEN, "image", "_", Digit(i), CLOSE>>
\* f"image_{i}"
NameUnderscore(i) == <<"image", "_", Digit(i)>>
\* f"image{i}"
NamePlain(i) == <<"image", Digit(i)>>

\* s[i..] starts with pat
MatchesAt(s, pat, i) ==
    /\ i + Len(pat) - 1 <= Len(s)
    /\ \A k \in 1..Len(pat) : s[i + k - 1] = pat[k]

\* pat in s
Contains(s, pat) == \E i \in 1..Len(s) : MatchesAt(s, pat, i)

\* s.replace(pat, rep): every non-overlapping occurrence, left to right
RECURSIVE ReplaceFrom(_, _, _, _)
ReplaceFrom(s, pat, rep, i) ==
    IF i > Len(s) THEN <<>>
    ELSE IF MatchesAt(s, pat, i)
         THEN rep \o ReplaceFrom(s, pat, rep, i + Len(pat))
         ELSE <<s[i]>> \o ReplaceFrom(s, pat, rep, i + 1)

Replace(s, pat, rep) == ReplaceFrom(s, pat, rep, 1)

\* s.strip(): leading and trailing whitespace removed
RECURSIVE LStrip(_)
LStrip(s) == IF s # <<>> /\ Head(s) = " " THEN LStrip(Tail(s)) ELSE s

RECURSIVE RStrip(_)
RStrip(s) ==
    IF s # <<>> /\ s[Len(s)] = " " THEN RStrip(SubSeq(s, 1, Len(s) - 1)) ELSE s

Strip(s) == RStrip(LStrip(s))

(***************************************************************************)
(* _process_prompt_and_images.  An image is "None" or a tensor, of which   *)
(* any(images) asks the truth value: "one" is a one-element non-zero       *)
(* tensor (true), "zero" a one-element zero tensor (false), "multi" a      *)
(* tensor of several elements, whose truth value raises.                   *)
(***************************************************************************)
ImageKinds == {"None", "one", "zero", "multi"}

\* any(images): "true", "false" or "raise"; it stops at the first true element
RECURSIVE AnyImagesFrom(_, _)
AnyImagesFrom(imgs, i) ==
    IF i > Len(imgs) THEN "false"
    ELSE IF imgs[i] = "multi" THEN "raise"
    ELSE IF imgs[i] = "one" THEN "true"
    ELSE AnyImagesFrom(imgs, i + 1)

AnyImages(imgs) == AnyImagesFrom(imgs, 1)

\* " ".join(f"<img><|image_{i+1}|></img>" for i, img in enumerate(images)
\*          if img is not None), from image i on
RECURSIVE JoinTagsFrom(_, _, _)
JoinTagsFrom(imgs, i, first) ==
    IF i > Len(imgs) THEN <<>>
    ELSE IF imgs[i] = "None" THEN JoinTagsFrom(imgs, i + 1, first)
    ELSE (IF first THEN <<>> ELSE <<" ">>) \o ImgTag(i)
         \o JoinTagsFrom(imgs, i + 1, FALSE)

\* lines 177-178: the prompt the loop starts from
AutoPrompt(prompt, imgs) ==
    IF prompt = <<>> /\ AnyImages(imgs) = "true"
    THEN JoinTagsFrom(imgs, 1, TRUE)
    ELSE prompt

\* lines 186-192: the substitution for image i, whose save succeeded
SubstituteTag(prompt, i) ==
    IF Contains(prompt, NameUnderscore(i))
    THEN Replace(prompt, NameUnderscore(i), ImgTag(i))
    ELSE IF Contains(prompt, NamePlain(i))
    THEN Replace(prompt, NamePlain(i), ImgTag(i))
    ELSE IF ~Contains(prompt, ImgTag(i))
    THEN prompt \o <<" ">> \o ImgTag(i)
    ELSE prompt

\* lines 181-192: the loop from image i on; ok is the set of images whose
\* save_input_img returned a path
RECURSIVE SubstituteFrom(_, _, _, _)
SubstituteFrom(prompt, imgs, ok, i) ==
    IF i > Len(imgs) THEN prompt
    ELSE IF imgs[i] # "None" /\ i \in ok
    THEN SubstituteFrom(SubstituteTag(prompt, i), imgs, ok, i + 1)
    ELSE SubstituteFrom(prompt, imgs, ok, i + 1)

\* the paths appended to input_images, in order (a path is the image's index)
RECURSIVE SavedPathsFrom(_, _, _)
SavedPathsFrom(imgs, ok, i) ==
    IF i > Len(imgs) THEN <<>>
    ELSE (IF imgs[i] # "None" /\ i \in ok THEN <<i>> ELSE <<>>)
         \o SavedPathsFrom(imgs, ok, i + 1)

\* _process_prompt_and_images(prompt, images): raised is TRUE when any(images)
\* raised, and then nothing was saved
ProcessPromptAndImages(prompt, imgs, ok) ==
    IF prompt = <<>> /\ AnyImages(imgs) = "raise"
    THEN [raised |-> TRUE, prompt |-> prompt, paths |-> <<>>]
    ELSE [raised |-> FALSE,
          prompt |-> Strip(SubstituteFrom(AutoPrompt(prompt, imgs), imgs, ok, 1)),
          paths  |-> SavedPathsFrom(imgs, ok, 1)]

Present(imgs) == {i \in 1..Len(imgs) : imgs[i] # "None"}


(***************************************************************************)
(* generation(): the inputs and the external collaborators' outcomes.      *)
(***************************************************************************)
Precisions == {"Auto", "FP16", "FP8"}       \* INPUT_TYPES, model_precision

\* total_memory / 1024**3 < 8, with the memory counted in KiB
KiBPerGiB == 1048576
VramLimitGiB == 8

\* the machines tried: a GPU just below the limit and one exactly at it
MemSizes == {VramLimitGiB * KiBPerGiB - 1, VramLimitGiB * KiBPerGiB}

\* PRESET_PROMPTS when data.json is absent
PresetPrompts == [k \in {"None"} |-> <<>>]
PresetKeys == {"None", ""}                  \* '' is what __main__ passes

\* the prompts generation() is called with
GenPrompts == {<<>>, <<"a", " ">>, <<"image", "_", "1">>}

\* the image lists generation() is called with
GenImages == {<<"None", "None", "None">>, <<"one", "None", "None">>,
              <<"None", "multi", "multi">>}

OutputValues == {"imgA", "imgB"}            \* what pipe(...) may return

NoAcq == [prec |-> "None", pipe |-> 0]

\* _auto_select_precision with <= for < at line 127 (a faulty variant, for
\* sensitivity)
AutoSelectPrecision_AtLimit(c, mem) ==
    IF c /\ mem <= VramLimitGiB * KiBPerGiB THEN "FP8" ELSE "FP16"

\* _auto_select_precision, lines 123-130
AutoSelectPrecision(c, mem) ==
    IF c /\ mem < VramLimitGiB * KiBPerGiB THEN "FP8" ELSE "FP16"

\* the temp file save_input_img creates for image i of call c
FileId(c, i) == NumImages * (c - 1) + i

\* an exception leaves the try block: the except clause logs and re-raises,
\* the finally clause runs next
Raise(step) ==
    /\ error' = step
    /\ outcome' = "raise"
    /\ pc' = "finally"

Init ==
    /\ cuda \in BOOLEAN
    /\ mps \in BOOLEAN
    /\ totalMemKiB \in (IF cuda THEN MemSizes ELSE {0})
    \* __init__ returned: _ensure_model_exists() found or fetched the FP16 file
    /\ fp16File = TRUE
    /\ fp8File \in BOOLEAN
    /\ tmpRoot = FALSE
    /\ tmpDirs = {}
    /\ tmpFiles = {}
    /\ device = (IF cuda THEN "cuda" ELSE IF mps THEN "mps" ELSE "cpu")
    /\ modelInstance = 0
    /\ currentPrecision = "None"
    /\ tempDirAttr = 0
    /\ pc = "idle"
    /\ calls = 0
    /\ requested = "None"
    /\ precision = "None"
    /\ finalPrompt = <<>>
    /\ images = <<"None", "None", "None">>
    /\ saved = {}
    /\ pipe = 0
    /\ inputImages = <<>>
    /\ pipeCalls = 0
    /\ output = "none"
    /\ outcome = "none"
    /\ retVal = "none"
    /\ error = "none"
    /\ log = <<>>
    /\ builtPrec = <<>>
    /\ prevAcq = NoAcq
    /\ cacheAtStart = <<0, "None">>
    /\ cacheAtGet = <<0, "None">>
    /\ filesAtStart = <<fp16File, fp8File>>
    /\ promptIn = <<>>
    /\ createdDirs = {}
    /\ createdFiles = {}

\* lines 270-277: the call starts and resolves 'Auto'
Generation(mp, propsOk) ==
    /\ pc = "idle"
    /\ calls < MaxCalls
    /\ calls' = calls + 1
    /\ requested' = mp
    /\ finalPrompt' = <<>>
    /\ images' = <<"None", "None", "None">>
    /\ saved' = {}
    /\ pipe' = 0
    /\ inputImages' = <<>>
    /\ pipeCalls' = 0
    /\ output' = "none"
    /\ retVal' = "none"
    /\ log' = <<>>
    /\ cacheAtStart' = <<modelInstance, currentPrecision>>
    /\ cacheAtGet' = <<modelInstance, currentPrecision>>
    /\ filesAtStart' = <<fp16File, fp8File>>
    /\ promptIn' = <<>>
    /\ createdDirs' = {}
    /\ createdFiles' = {}
    /\ IF mp = "Auto" /\ cuda /\ ~propsOk
       THEN \* get_device_properties(0) raised
            /\ precision' = "None"
            /\ Raise("auto")
            /\ UNCHANGED prevAcq
       ELSE LET p == IF mp = "Auto" THEN AutoSelectPrecision(cuda, totalMemKiB)
                     ELSE mp
            IN  /\ precision' = p
                /\ error' = "none"
                /\ outcome' = "none"
                /\ pc' = "setup"
                /\ prevAcq' = IF prevAcq.prec \in {"None", p} THEN prevAcq
                              ELSE NoAcq
    /\ UNCHANGED <<machineVars, diskVars, objVars, builtPrec>>

\* line 279, _setup_temp_dir (113-116)
SetupTempDir(ok) ==
    /\ pc = "setup"
    /\ tempDirAttr' = calls
    /\ log' = Append(log, "makedirs")
    /\ IF ok
       THEN /\ tmpRoot' = TRUE
            /\ tmpDirs' = tmpDirs \cup {calls}
            /\ createdDirs' = createdDirs \cup {calls}
            /\ pc' = "clear"
            /\ UNCHANGED <<error, outcome>>
       ELSE /\ Raise("tempdir")
            /\ UNCHANGED <<tmpRoot, tmpDirs, createdDirs>>
    /\ UNCHANGED <<machineVars, fp16File, fp8File, tmpFiles, device, modelInstance,
                   currentPrecision, calls, requested, precision, finalPrompt,
                   images, saved, pipe, inputImages, pipeCalls, output, retVal,
                   builtPrec, prevAcq, cacheAtStart, cacheAtGet, filesAtStart,
                   promptIn, createdFiles>>

\* lines 284-290 with the stale instance kept (a faulty variant, for sensitivity)
ClearStale_Keep ==
    /\ pc = "clear"
    /\ pc' = "prompt"
    /\ UNCHANGED <<machineVars, diskVars, objVars, calls, requested, precision,
                   finalPrompt, images, saved, pipe, inputImages, pipeCalls,
                   output, outcome, retVal, error, log, histVars>>

\* lines 284-290: drop the instance of another precision, empty the cache
ClearStale ==
    /\ pc = "clear"
    /\ IF modelInstance # 0 /\ currentPrecision # precision
       THEN /\ modelInstance' = 0
            /\ currentPrecision' = "None"
            /\ log' = Append(log, "empty_cache")
       ELSE UNCHANGED <<modelInstance, currentPrecision, log>>
    /\ pc' = "prompt"
    /\ UNCHANGED <<machineVars, diskVars, device, tempDirAttr, calls, requested,
                   precision, finalPrompt, images, saved, pipe, inputImages,
                   pipeCalls, output, outcome, retVal, error, histVars>>

\* line 296
SelectPrompt(prompt, preset) ==
    /\ pc = "prompt"
    /\ IF Strip(prompt) # <<>>
       THEN /\ finalPrompt' = Strip(prompt)
            /\ pc' = "get"
            /\ UNCHANGED <<error, outcome>>
       ELSE IF preset \in DOMAIN PresetPrompts
       THEN /\ finalPrompt' = PresetPrompts[preset]
            /\ pc' = "get"
            /\ UNCHANGED <<error, outcome>>
       ELSE \* KeyError
            /\ Raise("preset")
            /\ UNCHANGED finalPrompt
    /\ UNCHANGED <<machineVars, diskVars, objVars, calls, requested, precision,
                   images, saved, pipe, inputImages, pipeCalls, output, retVal,
                   log, histVars>>

\* lines 209-216 without the reuse of line 210 (a faulty variant, for sensitivity)
GetPipeline_NoReuse ==
    /\ pc = "get"
    /\ cacheAtGet' = <<modelInstance, currentPrecision>>
    /\ IF ~(IF precision = "FP8" THEN fp8File ELSE fp16File)
       THEN /\ Raise("model_file")
            /\ UNCHANGED pipe
       ELSE /\ pc' = "create"
            /\ UNCHANGED <<pipe, error, outcome>>
    /\ UNCHANGED <<machineVars, diskVars, objVars, calls, requested, precision,
                   finalPrompt, images, saved, inputImages, pipeCalls, output,
                   retVal, log, builtPrec, prevAcq, cacheAtStart, filesAtStart,
                   promptIn, createdDirs, createdFiles>>

\* lines 207-216: reuse the instance, or check the model file
GetPipeline ==
    /\ pc = "get"
    /\ cacheAtGet' = <<modelInstance, currentPrecision>>
    /\ IF modelInstance # 0 /\ currentPrecision = precision
       THEN /\ pipe' = modelInstance
            /\ pc' = "process"
            /\ UNCHANGED <<error, outcome>>
       ELSE IF ~(IF precision = "FP8" THEN fp8File ELSE fp16File)
       THEN /\ Raise("model_file")
            /\ UNCHANGED pipe
       ELSE /\ pc' = "create"
            /\ UNCHANGED <<pipe, error, outcome>>
    /\ UNCHANGED <<machineVars, diskVars, objVars, calls, requested, precision,
                   finalPrompt, images, saved, inputImages, pipeCalls, output,
                   retVal, log, builtPrec, prevAcq, cacheAtStart, filesAtStart,
                   promptIn, createdDirs, createdFiles>>

\* lines 221-227: from_pretrained returns a pipeline, returns None or raises
FromPretrained(r) ==
    /\ pc = "create"
    /\ log' = Append(log, "from_pretrained")
    /\ IF r = "pipe"
       THEN /\ pipe' = Len(builtPrec) + 1
            /\ builtPrec' = Append(builtPrec, precision)
            /\ pc' = "place"
            /\ UNCHANGED <<error, outcome>>
       ELSE /\ Raise(IF r = "none" THEN "pipe_none" ELSE "from_pretrained")
            /\ UNCHANGED <<pipe, builtPrec>>
    /\ UNCHANGED <<machineVars, diskVars, objVars, calls, requested, precision,
                   finalPrompt, images, saved, inputImages, pipeCalls, output,
                   retVal, prevAcq, cacheAtStart, cacheAtGet, filesAtStart,
                   promptIn, createdDirs, createdFiles>>

\* lines 229-260 with the instance stored before it is validated (a faulty variant, for sensitivity)
PlaceAndStore_Early(moved, isCallable) ==
    /\ pc = "place"
    /\ log' = Append(log, IF moved = "same" THEN "to" ELSE "to_warning")
    /\ modelInstance' = pipe
    /\ IF isCallable
       THEN /\ currentPrecision' = precision
            /\ pc' = "process"
            /\ UNCHANGED <<pipe, error, outcome>>
       ELSE /\ Raise("not_callable")
            /\ pipe' = 0
            /\ UNCHANGED currentPrecision
    /\ UNCHANGED <<machineVars, diskVars, device, tempDirAttr, calls, requested,
                   precision, finalPrompt, images, saved, inputImages, pipeCalls,
                   output, retVal, histVars>>

\* lines 229-260: move to the device (pipe.to returns the pipeline, returns
\* None or raises: the original pipeline is used in every case), validate,
\* store the instance and its precision
PlaceAndStore(moved, isCallable) ==
    /\ pc = "place"
    /\ log' = Append(log, IF moved = "same" THEN "to" ELSE "to_warning")
    /\ IF isCallable
       THEN /\ modelInstance' = pipe
            /\ currentPrecision' = precision
            /\ pc' = "process"
            /\ UNCHANGED <<pipe, error, outcome>>
       ELSE /\ Raise("not_callable")
            /\ pipe' = 0
            /\ UNCHANGED <<modelInstance, currentPrecision>>
    /\ UNCHANGED <<machineVars, diskVars, device, tempDirAttr, calls, requested,
                   precision, finalPrompt, images, saved, inputImages, pipeCalls,
                   output, retVal, histVars>>


\* save_input_img (161-170) for the present images: ok are the images saved,
\* kept the images whose file was created (delete=False) before the save
\* failed; the paths of TMP_DIR are numbered by call and image
ProcessImages(imgs, ok, kept) ==
    /\ pc = "process"
    /\ images' = imgs
    /\ promptIn' = finalPrompt
    /\ LET r == ProcessPromptAndImages(finalPrompt, imgs, ok)
       IN  IF r.raised
           THEN /\ Raise("any_images")
                /\ UNCHANGED <<finalPrompt, inputImages, saved, tmpFiles,
                               createdFiles, log>>
           ELSE LET new == {FileId(calls, i) : i \in ok \cup kept}
                IN  /\ finalPrompt' = r.prompt
                    /\ inputImages' = [k \in 1..Len(r.paths) |->
                                           FileId(calls, r.paths[k])]
                    /\ saved' = ok
                    /\ tmpFiles' = tmpFiles \cup new
                    /\ createdFiles' = createdFiles \cup new
                    /\ log' = log \o [k \in 1..Cardinality(Present(imgs)) |->
                                          "save_input_img"]
                    /\ pc' = "call"
                    /\ UNCHANGED <<error, outcome>>
    /\ UNCHANGED <<machineVars, fp16File, fp8File, tmpRoot, tmpDirs, objVars, calls,
                   requested, precision, pipe, pipeCalls, output, retVal,
                   builtPrec, prevAcq, cacheAtStart, cacheAtGet, filesAtStart,
                   createdDirs>>

\* lines 310-331 with the call repeated (a faulty variant, for sensitivity)
CallPipe_Twice(r) ==
    /\ pc = "call"
    /\ pipeCalls' = pipeCalls + 2
    /\ log' = log \o <<"pipe", "pipe">>
    /\ IF r \in OutputValues
       THEN /\ output' = r
            /\ retVal' = r
            /\ outcome' = "return"
            /\ pc' = "finally"
            /\ UNCHANGED error
       ELSE /\ Raise("pipe")
            /\ UNCHANGED <<output, retVal>>
    /\ UNCHANGED <<machineVars, diskVars, objVars, calls, requested, precision,
                   finalPrompt, images, saved, pipe, inputImages, histVars>>

\* lines 310-331: the one call of the pipeline, whose value is returned
CallPipe(r) ==
    /\ pc = "call"
    /\ pipeCalls' = pipeCalls + 1
    /\ log' = Append(log, "pipe")
    /\ IF r \in OutputValues
       THEN /\ output' = r
            /\ retVal' = r
            /\ outcome' = "return"
            /\ pc' = "finally"
            /\ UNCHANGED error
       ELSE /\ Raise("pipe")
            /\ UNCHANGED <<output, retVal>>
    /\ UNCHANGED <<machineVars, diskVars, objVars, calls, requested, precision,
                   finalPrompt, images, saved, pipe, inputImages, histVars>>

\* lines 336-337, _cleanup_temp_dir (118-121); the call ends
Finally ==
    /\ pc = "finally"
    /\ IF tempDirAttr # 0 /\ tempDirAttr \in tmpDirs
       THEN tmpDirs' = tmpDirs \ {tempDirAttr}
       ELSE UNCHANGED tmpDirs
    /\ log' = <<>>
    /\ prevAcq' = IF pipe # 0 THEN [prec |-> precision, pipe |-> pipe] ELSE prevAcq
    \* the locals go with the frame; what the caller saw stays
    /\ pipe' = 0
    /\ finalPrompt' = <<>>
    /\ images' = <<"None", "None", "None">>
    /\ saved' = {}
    /\ inputImages' = <<>>
    /\ promptIn' = <<>>
    /\ pc' = "idle"
    /\ UNCHANGED <<machineVars, fp16File, fp8File, tmpRoot, tmpFiles, objVars, calls,
                   requested, precision, pipeCalls, output, outcome, retVal, error,
                   builtPrec, cacheAtStart, cacheAtGet, filesAtStart, createdDirs,
                   createdFiles>>

Next ==
    \/ \E mp \in Precisions, propsOk \in BOOLEAN : Generation(mp, propsOk)
    \/ \E ok \in BOOLEAN : SetupTempDir(ok)
    \/ ClearStale
    \/ \E prompt \in GenPrompts, preset \in PresetKeys : SelectPrompt(prompt, preset)
    \/ GetPipeline
    \/ \E r \in {"pipe", "none", "raise"} : FromPretrained(r)
    \/ \E moved \in {"same", "none", "raise"}, isCallable \in BOOLEAN :
           PlaceAndStore(moved, isCallable)
    \/ \E imgs \in GenImages :
           \E ok \in SUBSET Present(imgs) :
               \E kept \in SUBSET (Present(imgs) \ ok) : ProcessImages(imgs, ok, kept)
    \/ \E r \in OutputValues \cup {"raise"} : CallPipe(r)
    \/ Finally

Spec == Init /\ [][Next]_vars


(***************************************************************************)
(* _ensure_model_exists(model_precision), lines 69-111, one action per      *)
(* statement group.  SpecEnsure calls it once, with every argument ("None" *)
(* is the default of __init__'s call) and every combination of files.      *)
(***************************************************************************)
EnsureArgs == {"None", "Auto", "FP16", "FP8"}

\* the variables _ensure_model_exists and _process_prompt_and_images leave alone
otherVars == <<machineVars, tmpRoot, tmpDirs, tmpFiles, objVars, calls, precision,
               pipe, pipeCalls, output, retVal, builtPrec, prevAcq, cacheAtStart,
               cacheAtGet, createdDirs, createdFiles>>

\* the values of those variables while a helper is called on its own
OtherInit ==
    /\ cuda = FALSE
    /\ mps = FALSE
    /\ totalMemKiB = 0
    /\ tmpRoot = FALSE
    /\ tmpDirs = {}
    /\ tmpFiles = {}
    /\ device = "cpu"
    /\ modelInstance = 0
    /\ currentPrecision = "None"
    /\ tempDirAttr = 0
    /\ calls = 0
    /\ precision = "None"
    /\ pipe = 0
    /\ pipeCalls = 0
    /\ output = "none"
    /\ retVal = "none"
    /\ builtPrec = <<>>
    /\ prevAcq = NoAcq
    /\ cacheAtStart = <<0, "None">>
    /\ cacheAtGet = <<0, "None">>
    /\ createdDirs = {}
    /\ createdFiles = {}

InitEnsure ==
    /\ OtherInit
    /\ requested \in EnsureArgs
    /\ fp16File \in BOOLEAN
    /\ fp8File \in BOOLEAN
    /\ filesAtStart = <<fp16File, fp8File>>
    /\ pc = "e_makedirs"
    /\ outcome = "none"
    /\ error = "none"
    /\ log = <<>>
    /\ finalPrompt = <<>>
    /\ promptIn = <<>>
    /\ images = <<"None", "None", "None">>
    /\ saved = {}
    /\ inputImages = <<>>

\* lines 109-111: every exception is logged and raised again as RuntimeError
EnsureRaise(step) ==
    /\ error' = step
    /\ outcome' = "raise"
    /\ pc' = "e_done"

promptVars == <<finalPrompt, promptIn, images, saved, inputImages>>

\* line 72
EnsureMakedirs(ok) ==
    /\ pc = "e_makedirs"
    /\ IF ok
       THEN /\ pc' = "e_fp8"
            /\ UNCHANGED <<error, outcome>>
       ELSE EnsureRaise("makedirs")
    /\ UNCHANGED <<otherVars, promptVars, requested, fp16File, fp8File,
                   filesAtStart, log>>

\* lines 75-86: the FP8 file is fetched when FP8 is asked for and missing.
\* r: requests.get raises; the status is not 200; open() fails; a chunk
\* fails after the file was created; the file is written
EnsureFP8(r) ==
    /\ pc = "e_fp8"
    /\ IF requested = "FP8" /\ ~fp8File
       THEN /\ log' = Append(log, "requests.get")
            /\ fp8File' = (r \in {"write_fails", "written"})
            /\ IF r = "written"
               THEN /\ pc' = "e_fp16"
                    /\ UNCHANGED <<error, outcome>>
               ELSE EnsureRaise(r)
       ELSE /\ pc' = "e_fp16"
            /\ UNCHANGED <<log, fp8File, error, outcome>>
    /\ UNCHANGED <<otherVars, promptVars, requested, fp16File, filesAtStart>>

\* lines 89-99: the snapshot is fetched when the FP16 file is missing; it
\* returns or raises, having written the FP16 file or not (got16) and the
\* other files of the repository, the FP8 file among them, or not (got8)
EnsureFP16(returns, got16, got8) ==
    /\ pc = "e_fp16"
    /\ IF ~fp16File
       THEN /\ log' = Append(log, "snapshot_download")
            /\ fp16File' = got16
            /\ fp8File' = (fp8File \/ got8)
            /\ IF returns
               THEN /\ pc' = "e_verify"
                    /\ UNCHANGED <<error, outcome>>
               ELSE EnsureRaise("snapshot_download")
       ELSE /\ pc' = "e_verify"
            /\ UNCHANGED <<log, fp16File, fp8File, error, outcome>>
    /\ UNCHANGED <<otherVars, promptVars, requested, filesAtStart>>

\* lines 101-107 without the FP16 check of line 104 (a faulty variant, for sensitivity)
EnsureVerify_NoFP16Check ==
    /\ pc = "e_verify"
    /\ IF requested = "FP8" /\ ~fp8File
       THEN EnsureRaise("verify_fp8")
       ELSE /\ outcome' = "return"
            /\ pc' = "e_done"
            /\ UNCHANGED error
    /\ UNCHANGED <<otherVars, promptVars, requested, fp16File, fp8File,
                   filesAtStart, log>>

\* lines 101-107: both files are verified, then the method returns
EnsureVerify ==
    /\ pc = "e_verify"
    /\ IF requested = "FP8" /\ ~fp8File
       THEN EnsureRaise("verify_fp8")
       ELSE IF ~fp16File
       THEN EnsureRaise("verify_fp16")
       ELSE /\ outcome' = "return"
            /\ pc' = "e_done"
            /\ UNCHANGED error
    /\ UNCHANGED <<otherVars, promptVars, requested, fp16File, fp8File,
                   filesAtStart, log>>

NextEnsure ==
    \/ \E ok \in BOOLEAN : EnsureMakedirs(ok)
    \/ \E r \in {"get_raises", "status_not_200", "open_fails", "write_fails",
                 "written"} : EnsureFP8(r)
    \/ \E returns \in BOOLEAN, got16 \in BOOLEAN, got8 \in BOOLEAN :
           EnsureFP16(returns, got16, got8)
    \/ EnsureVerify

SpecEnsure == InitEnsure /\ [][NextEnsure]_vars

(***************************************************************************)
(* _process_prompt_and_images(prompt, images) on its own.  SpecPrompt      *)
(* calls it once with every prompt of at most MaxWords words, every image  *)
(* list and every set of images whose save succeeds.                       *)
(***************************************************************************)
\* what a prompt is written with: tags, image names, a word, a blank
Words == {ImgTag(1), ImgTag(2), NameUnderscore(1), NameUnderscore(2),
          NamePlain(1), <<"a">>, <<" ">>}

RECURSIVE PromptsOf(_)
PromptsOf(n) ==
    IF n = 0 THEN {<<>>}
    ELSE LET shorter == PromptsOf(n - 1)
         IN  shorter \cup {q \o w : q \in shorter, w \in Words}

InitPrompt ==
    /\ OtherInit
    /\ requested = "None"
    /\ fp16File = TRUE
    /\ fp8File = TRUE
    /\ filesAtStart = <<TRUE, TRUE>>
    /\ pc = "p_call"
    /\ outcome = "none"
    /\ error = "none"
    /\ log = <<>>
    /\ promptIn \in PromptsOf(MaxWords)
    /\ finalPrompt = promptIn
    /\ images \in [1..NumImages -> ImageKinds]
    /\ saved \in SUBSET Present(images)
    /\ inputImages = <<>>

\* lines 172-194
ProcessCall ==
    /\ pc = "p_call"
    /\ LET r == ProcessPromptAndImages(promptIn, images, saved)
       IN  /\ finalPrompt' = r.prompt
           /\ inputImages' = r.paths
           /\ outcome' = IF r.raised THEN "raise" ELSE "return"
           /\ error' = IF r.raised THEN "any_images" ELSE "none"
    /\ pc' = "p_done"
    /\ UNCHANGED <<otherVars, requested, fp16File, fp8File, filesAtStart, log,
                   promptIn, images, saved>>

NextPrompt == ProcessCall

SpecPrompt == InitPrompt /\ [][NextPrompt]_vars

(***************************************************************************)
(* The claims about generation(), checked under Spec.                      *)
(***************************************************************************)
Events(l) == {l[k] : k \in 1..Len(l)}

\* event a is in l, and before every event b of l
Precedes(l, a, b) ==
    /\ a \in Events(l)
    /\ \A j \in 1..Len(l) : l[j] = b => \E i \in 1..(j - 1) : l[i] = a

\* the errors _get_pipeline raises
AcqErrors == {"model_file", "pipe_none", "from_pretrained", "not_callable"}
\* the errors raised before _get_pipeline is entered
EarlyErrors == {"auto", "tempdir", "preset"}
\* the errors raised after _get_pipeline returned
LateErrors == {"any_images", "pipe"}

Cache == <<modelInstance, currentPrecision>>
EmptyCache == <<0, "None">>

\* C1: once a call has acquired a pipeline at effective precision P, a later
\* call of effective precision P, with no call of another effective precision
\* in between, calls from_pretrained not at all, and the pipeline it holds and
\* invokes is the instance the earlier call acquired.
C1_PipelineReuse ==
    (prevAcq.prec # "None" /\ prevAcq.prec = precision) =>
        /\ "from_pretrained" \notin Events(log)
        /\ pipe # 0 => pipe = prevAcq.pipe
        /\ modelInstance = prevAcq.pipe

\* a second call of the same precision has invoked the instance of the first
C1_Witness ==
    /\ calls = 2
    /\ pc = "finally"
    /\ outcome = "return"
    /\ prevAcq.prec = precision
    /\ pipe = prevAcq.pipe
    /\ pipeCalls = 1

\* C2: a call that finds the weight file of its precision missing attempts
\* the download before it constructs the pipeline: it never fails with
\* "Model file not found" without a download having been attempted.
C2_DownloadBeforeModelFileError ==
    error = "model_file" =>
        Events(log) \cap {"requests.get", "snapshot_download"} # {}

\* C3: a call in which a step failed raises: it never returns a result after
\* a step failed, here after save_input_img failed for a supplied image.
C3_FailuresAreRaised ==
    /\ error # "none" => outcome = "raise"
    /\ outcome = "return" => saved = Present(images)

\* C4: when a call has ended, whether it returned or raised, no temporary
\* directory and no temporary input-image file it created exists any more.
C4_TempFilesRemoved ==
    pc = "idle" =>
        /\ createdDirs \cap tmpDirs = {}
        /\ createdFiles \cap tmpFiles = {}

\* C5: the adapter never references two pipeline instances; a pipeline is
\* constructed only while the cache is empty; and when the call began with an
\* instance of another precision, _empty_cache ran before from_pretrained.
C5_OnePipelineAndSwitchOrder ==
    /\ Cardinality({modelInstance, pipe} \ {0}) <= 1
    /\ pc = "place" => Cache = EmptyCache
    /\ ( /\ cacheAtStart[1] # 0
         /\ cacheAtStart[2] # precision
         /\ "from_pretrained" \in Events(log) )
       => Precedes(log, "empty_cache", "from_pretrained")

\* a replacement has just been constructed after a precision switch
C5_Witness ==
    /\ pc = "place"
    /\ cacheAtStart[1] # 0
    /\ cacheAtStart[2] # precision
    /\ pipe # 0
    /\ pipe # cacheAtStart[1]

\* C6: a call that returns has invoked the pipeline exactly once and returns
\* the value of that invocation; a call whose pipeline acquisition failed has
\* invoked the pipeline zero times and saved no input image.
C6_SingleDelegation ==
    /\ outcome = "return" =>
           /\ pipeCalls = 1
           /\ output \in OutputValues
           /\ retVal = output
    /\ error \in AcqErrors =>
           /\ pipeCalls = 0
           /\ createdFiles = {}
           /\ "save_input_img" \notin Events(log)
           /\ "pipe" \notin Events(log)

\* a call has returned the value of its one invocation
C6_Witness ==
    /\ pc = "idle"
    /\ outcome = "return"
    /\ pipeCalls = 1
    /\ retVal = "imgB"

\* C8: 'Auto' resolves to FP8 exactly when CUDA is available and device 0 has
\* less than 8 GiB, and to FP16 otherwise; the precision handed to
\* _get_pipeline and the precision recorded in the cache are never 'Auto'.
C8_PrecisionResolution ==
    /\ currentPrecision \in {"None", "FP16", "FP8"}
    /\ pc \in {"get", "create", "place"} => precision \in {"FP16", "FP8"}
    /\ (requested = "Auto" /\ precision # "None") =>
           /\ precision \in {"FP16", "FP8"}
           /\ precision = "FP8" <=>
                  (cuda /\ totalMemKiB < VramLimitGiB * KiBPerGiB)

\* on a GPU of exactly 8 GiB an 'Auto' call has cached an FP16 pipeline
C8_Witness ==
    /\ requested = "Auto"
    /\ cuda
    /\ totalMemKiB = VramLimitGiB * KiBPerGiB
    /\ modelInstance # 0
    /\ currentPrecision = "FP16"

CacheWellFormed ==
    /\ modelInstance = 0 <=> currentPrecision = "None"
    /\ modelInstance # 0 =>
           /\ modelInstance \in 1..Len(builtPrec)
           /\ builtPrec[modelInstance] = currentPrecision

\* C10 as stated: the instance is None exactly when the precision is None, a
\* held instance is paired with the precision it was built for, a failing
\* _get_pipeline leaves both fields as it found them, and after a failed
\* generation call the cache is as before the call or empty.
C10_CacheAfterAnyFailedCall ==
    /\ CacheWellFormed
    /\ error \in AcqErrors => Cache = cacheAtGet
    /\ (pc = "idle" /\ outcome = "raise") => Cache \in {cacheAtStart, EmptyCache}

\* C10 as amended: the same, but only a call that failed before _get_pipeline
\* returned leaves the cache as before the call or empty; a call that failed
\* later leaves the instance it acquired, paired with the call's precision.
C10_CacheConsistency ==
    /\ CacheWellFormed
    /\ error \in AcqErrors => Cache = cacheAtGet
    /\ (outcome = "raise" /\ error \in EarlyErrors \cup AcqErrors) =>
           Cache \in {cacheAtStart, EmptyCache}
    /\ (outcome = "raise" /\ error \in LateErrors) =>
           /\ modelInstance # 0
           /\ currentPrecision = precision

\* a call that switched precision failed in _get_pipeline: the cache is empty
C10_Witness ==
    /\ pc = "idle"
    /\ outcome = "raise"
    /\ error = "not_callable"
    /\ cacheAtStart[1] # 0
    /\ Cache = EmptyCache


(***************************************************************************)
(* The claim about _ensure_model_exists, checked under SpecEnsure.         *)
(***************************************************************************)
\* C7: _ensure_model_exists returns only with the FP16 file on disk and, for
\* 'FP8', the FP8 file too; every other outcome raises; the FP8 download is
\* attempted only for 'FP8' with the FP8 file missing, the snapshot download
\* only with the FP16 file missing.
C7_EnsureModelExists ==
    /\ outcome = "return" => (fp16File /\ (requested = "FP8" => fp8File))
    /\ pc = "e_done" => outcome \in {"return", "raise"}
    /\ (pc = "e_done" /\ ~(fp16File /\ (requested = "FP8" => fp8File))) =>
           outcome = "raise"
    /\ error # "none" => outcome = "raise"
    /\ "requests.get" \in Events(log) => (requested = "FP8" /\ ~filesAtStart[2])
    /\ "snapshot_download" \in Events(log) => ~filesAtStart[1]

\* an 'FP8' call that found neither file has fetched both and returned
C7_Witness ==
    /\ pc = "e_done"
    /\ outcome = "return"
    /\ requested = "FP8"
    /\ filesAtStart = <<FALSE, FALSE>>
    /\ log = <<"requests.get", "snapshot_download">>

(***************************************************************************)
(* The claim about _process_prompt_and_images, checked under SpecPrompt.   *)
(***************************************************************************)
\* a tag opens inside a tag that is still open
Nested(p) ==
    \E i, j \in 1..Len(p) :
        /\ i < j
        /\ p[i] = OPEN
        /\ p[j] = OPEN
        /\ \A k \in (i + 1)..(j - 1) : p[k] # CLOSE

\* C9: the returned prompt holds the tag of every saved image, no tag is
\* nested inside another, and a prompt that already holds the tags of the
\* saved images (the auto-generated prompt included) is returned unchanged.
C9_TagsWellFormedIdempotent ==
    (pc = "p_done" /\ outcome = "return") =>
        LET p0 == AutoPrompt(promptIn, images)
        IN  /\ \A i \in saved : Contains(finalPrompt, ImgTag(i))
            /\ ~Nested(p0) => ~Nested(finalPrompt)
            /\ (\A i \in saved : Contains(p0, ImgTag(i))) =>
                   finalPrompt = Strip(p0)

====
